---- MODULE Spec2Model ----
(***************************************************************************)
(* Model of this-week-in-open-source (src/src/main.rs): the fetch loop,    *)
(* the exclusion filter, the reference extractor, the label matcher and    *)
(* the markdown renderer, with main's two branches (readable config, flat  *)
(* mode).                                                                  *)
(*                                                                         *)
(* A Rust String is modelled as the sequence of its bytes (ASCII codes),   *)
(* so that format!, join, split and the Ord of String are computed and not *)
(* assumed.                                                                *)
(***************************************************************************)
EXTENDS Integers, Sequences, FiniteSets

VARIABLES
    pc,                    \* position of main / of the function under test
    config,                \* Result<FileConfig, _> of read_config_from_file
    args_users,            \* args.users
    users,                 \* get_user_items: the users parameter
    ui,                    \* get_user_items: index of the user being fetched
    has_next,              \* get_user_items: page.next is Some
    log,                   \* every request issued, with the answer received
    items,                 \* the item list (get_user_items' items, main's items)
    repos,                 \* main's repos (labels with their item lists)
    unknown_items,         \* match_items_with_labels: unknown_items
    markdown_definitions,  \* result of extract_definitions
    definitions_again,     \* a second call of extract_definitions, same items
    definitions_permuted,  \* a call of extract_definitions on reordered items
    content,               \* main's content: Vec<String>
    file                   \* the output file <date>.md

vars == <<pc, config, args_users, users, ui, has_next, log, items, repos,
          unknown_items, markdown_definitions, definitions_again,
          definitions_permuted, content, file>>

----------------------------------------------------------------------------
(* Bounds of the model *)

\* pages the API serves for one user's search
MaxPages == 2
\* records on one page
MaxPageLen == 2
\* items handed to match_items_with_labels / extract_definitions when they
\* are checked on their own
MaxLen == 3
\* label groups handed to match_items_with_labels when checked on its own
MaxRepos == 2

----------------------------------------------------------------------------
(* Strings: sequences of bytes *)

\* Ord for String: byte-wise lexicographic, a proper prefix is smaller
RECURSIVE StrLess(_, _)
StrLess(a, b) ==
    IF b = <<>> THEN FALSE
    ELSE IF a = <<>> THEN TRUE
    ELSE IF a[1] # b[1] THEN a[1] < b[1]
    ELSE StrLess(Tail(a), Tail(b))

StrLeq(a, b) == ~StrLess(b, a)

StartsWith(s, p) == Len(s) >= Len(p) /\ SubSeq(s, 1, Len(p)) = p

\* [String]::join(sep)
RECURSIVE Join(_, _)
Join(strs, sep) ==
    IF strs = <<>> THEN <<>>
    ELSE IF Len(strs) = 1 THEN strs[1]
    ELSE strs[1] \o sep \o Join(Tail(strs), sep)

\* str::split(c): the pieces between the occurrences of byte c
Split(s, c) ==
    LET at == {i \in DOMAIN s : s[i] = c}
        n  == Cardinality(at)
        \* the position of the k-th occurrence; 0 and Len(s) + 1 around them
        pos(k) == IF k = 0 THEN 0
                  ELSE IF k = n + 1 THEN Len(s) + 1
                  ELSE CHOOSE i \in at : Cardinality({j \in at : j < i}) = k - 1
    IN  [k \in 1..(n + 1) |-> SubSeq(s, pos(k - 1) + 1, pos(k) - 1)]

\* Vec::contains
Contains(seq, x) == \E i \in DOMAIN seq : seq[i] = x

Range(seq) == {seq[i] : i \in DOMAIN seq}

Count(seq, x) == Cardinality({i \in DOMAIN seq : seq[i] = x})

\* injective sequences over the set S of length at most n
InjSeqs(S, n) ==
    UNION {{s \in [1..k -> S] : \A i, j \in 1..k : i # j => s[i] # s[j]}
           : k \in 0..n}

\* all sequences over the set S of length at most n
SeqsUpTo(S, n) == UNION {[1..k -> S] : k \in 0..n}

\* the orders in which the elements of the set S can be enumerated
Enumerations(S) == InjSeqs(S, Cardinality(S)) \ InjSeqs(S, Cardinality(S) - 1)

\* slice::sort / sort_by_key (stable), on <<key, element>> pairs: insertion
\* of p behind every pair whose key is not greater
RECURSIVE InsertByKey(_, _)
InsertByKey(sorted, p) ==
    IF sorted = <<>> THEN <<p>>
    ELSE IF StrLess(p[1], sorted[1][1]) THEN <<p>> \o sorted
    ELSE <<sorted[1]>> \o InsertByKey(Tail(sorted), p)

RECURSIVE StableSortPairs(_)
StableSortPairs(pairs) ==
    IF pairs = <<>> THEN <<>>
    ELSE InsertByKey(StableSortPairs(SubSeq(pairs, 1, Len(pairs) - 1)),
                     pairs[Len(pairs)])

Values(pairs) == [i \in DOMAIN pairs |-> pairs[i][2]]

\* Vec<String>::sort
sort(strs) == Values(StableSortPairs([i \in DOMAIN strs |-> <<strs[i], strs[i]>>]))

----------------------------------------------------------------------------
(* Item, RepoConfig and the formatting functions *)

\* "\n"
NL == <<10>>

\* BREAK_LINE: the raw string holds two line feeds
BREAK_LINE == <<10, 10>>

\* format!("- [{}] [#{}]({}) {} ([@{}])", ...)
format_item(user_login, item) ==
    <<45, 32, 91>> \o item.repository_name \o <<93, 32, 91, 35>>
        \o item.issue_number \o <<93, 40>> \o item.issue_url \o <<41, 32>>
        \o item.issue_title \o <<32, 40, 91, 64>> \o user_login \o <<93, 41>>

\* format!("## {}", repo.name)
format_label(repo) == <<35, 35, 32>> \o repo.name

format_items(its) == [i \in DOMAIN its |-> format_item(its[i].user_login, its[i])]

\* format!("[@{}]: {}", item.user_login, item.user_url)
user_definition(item) ==
    <<91, 64>> \o item.user_login \o <<93, 58, 32>> \o item.user_url

\* format!("[{}]: {}", item.repository_name, item.repository_url)
repository_definition(item) ==
    <<91>> \o item.repository_name \o <<93, 58, 32>> \o item.repository_url

----------------------------------------------------------------------------
(* extract_definitions *)

\* faulty variant: the lines are collected in a Vec, nothing is deduplicated
VecIterations(lines) == {lines}

\* HashSet::insert of every line, then Vec::from_iter: the set's elements,
\* each once, in an order the hasher decides
HashSetIterations(lines) == Enumerations(Range(lines))

\* faulty variant: the sort is left out
unsorted(strs) == strs

sorted_definitions(strs) == sort(strs)

\* the results extract_definitions can return for items, one per iteration
\* order of the two hash sets
extract_definitions(its) ==
    {sorted_definitions(unique_users) \o sorted_definitions(unique_repositories) :
        unique_users \in HashSetIterations([i \in DOMAIN its |-> user_definition(its[i])]),
        unique_repositories \in
            HashSetIterations([i \in DOMAIN its |-> repository_definition(its[i])])}

----------------------------------------------------------------------------
(* match_items_with_labels *)

\* faulty variant: the last label whose repos contain the name
find_last_label(labels, name) ==
    LET hits == {i \in DOMAIN labels : Contains(labels[i].repos, name)}
    IN  IF hits = {} THEN 0 ELSE CHOOSE i \in hits : \A j \in hits : j <= i

\* repos.into_iter().find(|label| label.repos.contains(name)): the index of
\* the first such label, 0 for None
find_label(labels, name) ==
    LET hits == {i \in DOMAIN labels : Contains(labels[i].repos, name)}
    IN  IF hits = {} THEN 0 ELSE CHOOSE i \in hits : \A j \in hits : i <= j

\* faulty variant: the item is pushed to every label whose repos contain the name
match_item_every_label(m, item) ==
    [repos |-> [i \in DOMAIN m.repos |->
                   IF Contains(m.repos[i].repos, item.repository_name)
                   THEN [m.repos[i] EXCEPT !.items = Append(@, item)]
                   ELSE m.repos[i]],
     unknown_items |-> IF find_label(m.repos, item.repository_name) = 0
                       THEN Append(m.unknown_items, item)
                       ELSE m.unknown_items]

\* the body of the for loop, on m = [repos, unknown_items]
match_item(m, item) ==
    LET label == find_label(m.repos, item.repository_name)
    IN  IF label # 0
        THEN [m EXCEPT !.repos[label].items = Append(@, item)]
        ELSE [m EXCEPT !.unknown_items = Append(@, item)]

RECURSIVE match_loop(_, _)
match_loop(m, its) ==
    IF its = <<>> THEN m
    ELSE match_loop(match_item(m, its[1]), Tail(its))

match_items_with_labels(labels, its) ==
    match_loop([repos |-> labels, unknown_items |-> <<>>], its)

----------------------------------------------------------------------------
(* The remote search API's records and their conversion to Items *)

\* "s://h": scheme and host of every URL the API serves
Origin == <<115, 58, 47, 47, 104>>

\* a pull request record: html_url is <origin>/<owner>/<repo>/pull/<number>
Issue(owner_repo, number, login) ==
    [html_url |-> Origin \o <<47>> \o owner_repo \o <<47, 112, 117, 108, 108, 47>> \o number,
     number   |-> number,
     title    |-> <<84>>,
     user     |-> [login |-> login, html_url |-> Origin \o <<47>> \o login]]

\* Url::path of an absolute URL scheme://host/seg/...: what follows the host
UrlPath(url) ==
    LET parts == Split(url, 47)
    IN  <<47>> \o Join(SubSeq(parts, 4, Len(parts)), <<47>>)

\* url.split("/"), pop, pop, join("/")
repository_url(url) ==
    LET repository_url_parts == Split(url, 47)
    IN  Join(SubSeq(repository_url_parts, 1, Len(repository_url_parts) - 2), <<47>>)

\* html_url.path().split("/").filter(|x| x.len() > 0), then "{}/{}" of the
\* first two
repository_name(url) ==
    LET path_parts == SelectSeq(Split(UrlPath(url), 47), LAMBDA x : Len(x) > 0)
    IN  path_parts[1] \o <<47>> \o path_parts[2]

\* the Item pushed for one issue of a page
to_item(issue) ==
    [user_login      |-> issue.user.login,
     user_url        |-> issue.user.html_url,
     issue_number    |-> issue.number,
     issue_title     |-> issue.title,
     issue_url       |-> issue.html_url,
     repository_name |-> repository_name(issue.html_url),
     repository_url  |-> repository_url(issue.html_url)]

page_items(issues) == [i \in DOMAIN issues |-> to_item(issues[i])]

\* repository names "a/x", "b/y", "c/z"; logins "m", "B"
RepoAX == <<97, 47, 120>>
RepoBY == <<98, 47, 121>>
RepoCZ == <<99, 47, 122>>
LoginM == <<109>>
LoginB == <<66>>

----------------------------------------------------------------------------
(* Inputs of the functions checked on their own *)

\* two well-formed items, one of a repository no label group lists and of a
\* login seen before with another profile URL, one of a repository name seen
\* before with another repository URL
TestItems ==
    {to_item(Issue(RepoAX, <<49>>, LoginM)),
     to_item(Issue(RepoBY, <<50>>, LoginB)),
     [to_item(Issue(RepoCZ, <<51>>, LoginM)) EXCEPT !.user_url = Origin \o <<47, 77>>],
     [to_item(Issue(RepoBY, <<52>>, LoginM)) EXCEPT !.repository_url = Origin \o <<47, 98>>]}

\* label groups "E" [a/x], "A" [b/y, a/x], "Z" []; item lists start empty
TestRepos ==
    {[name |-> <<69>>, repos |-> <<RepoAX>>, items |-> <<>>],
     [name |-> <<65>>, repos |-> <<RepoBY, RepoAX>>, items |-> <<>>],
     [name |-> <<90>>, repos |-> <<>>, items |-> <<>>]}

NoConfig == [ok |-> FALSE]
NoFile == [created |-> FALSE, bytes |-> <<>>]

Idle ==
    /\ config = NoConfig /\ args_users = <<>> /\ users = <<>> /\ ui = 1
    /\ has_next = FALSE /\ log = <<>> /\ content = <<>> /\ file = NoFile

----------------------------------------------------------------------------
(* match_items_with_labels on its own *)

InitMatch ==
    /\ Idle
    /\ pc = "call_match"
    /\ items \in SeqsUpTo(TestItems, MaxLen)
    /\ repos \in InjSeqs(TestRepos, MaxRepos)
    /\ unknown_items = <<>>
    /\ markdown_definitions = <<>>
    /\ definitions_again = <<>>
    /\ definitions_permuted = <<>>

CallMatch ==
    /\ pc = "call_match"
    /\ LET m == match_items_with_labels(repos, items)
       IN  /\ repos' = m.repos
           /\ unknown_items' = m.unknown_items
    /\ pc' = "match_returned"
    /\ UNCHANGED <<config, args_users, users, ui, has_next, log, items,
                   markdown_definitions, definitions_again,
                   definitions_permuted, content, file>>

NextMatch == CallMatch

SpecMatch == InitMatch /\ [][NextMatch]_vars

----------------------------------------------------------------------------
(* extract_definitions on its own *)

Reorderings(seq) ==
    {[i \in DOMAIN seq |-> seq[p[i]]] : p \in Enumerations(DOMAIN seq)}

InitDefs ==
    /\ Idle
    /\ pc = "call_extract"
    /\ items \in SeqsUpTo(TestItems, MaxLen)
    /\ repos = <<>>
    /\ unknown_items = <<>>
    /\ markdown_definitions = <<>>
    /\ definitions_again = <<>>
    /\ definitions_permuted = <<>>

CallExtract ==
    /\ pc = "call_extract"
    /\ markdown_definitions' \in extract_definitions(items)
    /\ pc' = "call_again"
    /\ UNCHANGED <<config, args_users, users, ui, has_next, log, items, repos,
                   unknown_items, definitions_again, definitions_permuted,
                   content, file>>

CallExtractAgain ==
    /\ pc = "call_again"
    /\ definitions_again' \in extract_definitions(items)
    /\ pc' = "call_permuted"
    /\ UNCHANGED <<config, args_users, users, ui, has_next, log, items, repos,
                   unknown_items, markdown_definitions, definitions_permuted,
                   content, file>>

CallExtractPermuted ==
    /\ pc = "call_permuted"
    /\ \E reordered \in Reorderings(items) :
           definitions_permuted' \in extract_definitions(reordered)
    /\ pc' = "extract_returned"
    /\ UNCHANGED <<config, args_users, users, ui, has_next, log, items, repos,
                   unknown_items, markdown_definitions, definitions_again,
                   content, file>>

NextDefs == CallExtract \/ CallExtractAgain \/ CallExtractPermuted

SpecDefs == InitDefs /\ [][NextDefs]_vars

----------------------------------------------------------------------------
(* main: configuration, users and the remote API's answers *)

\* label groups "E" [a/x], "A" [b/y], "C" [a/x, b/y]
LabelPool ==
    {[name |-> <<69>>, repos |-> <<RepoAX>>, items |-> <<>>],
     [name |-> <<65>>, repos |-> <<RepoBY>>, items |-> <<>>],
     [name |-> <<67>>, repos |-> <<RepoAX, RepoBY>>, items |-> <<>>]}

\* label groups of a configuration
MaxLabels == 2

\* no header, or the one line "# T"
HeaderPool == {<<>>, <<<<35, 32, 84>>>>}

ExcludePool == {<<>>, <<RepoBY>>}

ConfigUsersPool == {<<>>, <<LoginB>>}

\* a user named twice is fetched twice
ArgsUsersPool == {<<LoginB, LoginB>>, <<LoginM, LoginB>>}

\* Ok(config) of read_config_from_file
Configs ==
    {[ok |-> TRUE, labels |-> l, header |-> h, users |-> u, exclude |-> e] :
        l \in InjSeqs(LabelPool, MaxLabels), h \in HeaderPool,
        u \in ConfigUsersPool, e \in ExcludePool}

\* the pull requests the API knows of each author
IssuesOf(login) ==
    IF login = LoginM
    THEN {Issue(RepoAX, <<49>>, LoginM), Issue(RepoBY, <<50>>, LoginM)}
    ELSE {Issue(RepoAX, <<51>>, LoginB)}

\* the answers received for the user at index i of users
AnswersFor(i) == SelectSeq(log, LAMBDA r : r.ui = i /\ r.ok)

RECURSIVE ServedIssues(_)
ServedIssues(answers) ==
    IF answers = <<>> THEN {}
    ELSE Range(answers[1].issues) \cup ServedIssues(Tail(answers))

\* a page the API can serve next for the user at index ui: records of that
\* author not served on an earlier page of the same search
Pages ==
    InjSeqs(IssuesOf(users[ui]) \ ServedIssues(AnswersFor(ui)), MaxPageLen)

\* page.next can be Some while the search has pages left
NextOptions ==
    IF Len(AnswersFor(ui)) + 1 < MaxPages THEN {TRUE, FALSE} ELSE {FALSE}

Request(kind, ok, issues, next) ==
    [user |-> users[ui], ui |-> ui, kind |-> kind, ok |-> ok,
     issues |-> issues, next |-> next]

----------------------------------------------------------------------------
(* main and get_user_items *)

\* faulty variant: the labels stay in configured order
unsorted_labels(labels) == labels

\* repos.sort_by_key(|label| label.name.clone())
sort_labels(labels) ==
    Values(StableSortPairs([i \in DOMAIN labels |-> <<labels[i].name, labels[i]>>]))

\* faulty variant: the items stay in fetch order
unsorted_items(its) == its

\* items.sort_by_key(|item| item.repository_name.clone())
sort_items(its) ==
    Values(StableSortPairs([i \in DOMAIN its |-> <<its[i].repository_name, its[i]>>]))

\* faulty variant: nothing is filtered out
exclude_nothing(its, exclude) == its

\* items.into_iter().filter(|item| !config.exclude.contains(&item.repository_name))
exclude_filter(its, exclude) ==
    SelectSeq(its, LAMBDA item : ~Contains(exclude, item.repository_name))

\* faulty variant: a page's items are put in front of the list
push_page_front(its, issues) == page_items(issues) \o its

\* for issue in &page { items.push(Item {...}) }
push_page(its, issues) == its \o page_items(issues)

\* faulty variant: the loop over the users is left after the first user
first_user_fetched == ui > 1 \/ ui > Len(users)

\* for user in users: every user has been processed
all_users_fetched == ui > Len(users)

Init ==
    /\ pc = "main"
    /\ config \in Configs \cup {NoConfig}
    /\ args_users \in ArgsUsersPool
    /\ users = <<>> /\ ui = 1 /\ has_next = FALSE /\ log = <<>>
    /\ items = <<>> /\ repos = <<>> /\ unknown_items = <<>>
    /\ markdown_definitions = <<>>
    /\ definitions_again = <<>> /\ definitions_permuted = <<>>
    /\ content = <<>> /\ file = NoFile

\* Ok(config): the labels are cloned and sorted, the users chosen, and
\* get_user_items is called
MainOk ==
    /\ pc = "main" /\ config.ok
    /\ repos' = sort_labels(config.labels)
    /\ users' = IF Len(config.users) > 0 THEN config.users ELSE args_users
    /\ ui' = 1 /\ items' = <<>>
    /\ pc' = "get_user_items"
    /\ UNCHANGED <<config, args_users, has_next, log, unknown_items,
                   markdown_definitions, definitions_again,
                   definitions_permuted, content, file>>

\* Err(e): the warning is printed and get_user_items is called with args.users
MainErr ==
    /\ pc = "main" /\ ~config.ok
    /\ users' = args_users
    /\ ui' = 1 /\ items' = <<>>
    /\ pc' = "get_user_items"
    /\ UNCHANGED <<config, args_users, has_next, log, repos, unknown_items,
                   markdown_definitions, definitions_again,
                   definitions_permuted, content, file>>

\* the answer Ok(page) to a request: its issues are pushed; without a next
\* page get_page returns None, the loop breaks and the next user follows
Received(kind) ==
    \E issues \in Pages, next \in NextOptions :
        /\ log' = Append(log, Request(kind, TRUE, issues, next))
        /\ items' = push_page(items, issues)
        /\ has_next' = next
        /\ ui' = IF next THEN ui ELSE ui + 1
        /\ pc' = pc

\* the answer Err(e) to a request: unwrap panics
Failed(kind) ==
    /\ log' = Append(log, Request(kind, FALSE, <<>>, FALSE))
    /\ pc' = "aborted"
    /\ UNCHANGED <<items, has_next, ui>>

GetPrsOk ==
    /\ pc = "get_user_items" /\ ui <= Len(users) /\ ~has_next
    /\ Received("search")
    /\ UNCHANGED <<config, args_users, users, repos, unknown_items,
                   markdown_definitions, definitions_again,
                   definitions_permuted, content, file>>

GetPrsErr ==
    /\ pc = "get_user_items" /\ ui <= Len(users) /\ ~has_next
    /\ Failed("search")
    /\ UNCHANGED <<config, args_users, users, repos, unknown_items,
                   markdown_definitions, definitions_again,
                   definitions_permuted, content, file>>

GetPageOk ==
    /\ pc = "get_user_items" /\ ui <= Len(users) /\ has_next
    /\ Received("next")
    /\ UNCHANGED <<config, args_users, users, repos, unknown_items,
                   markdown_definitions, definitions_again,
                   definitions_permuted, content, file>>

GetPageErr ==
    /\ pc = "get_user_items" /\ ui <= Len(users) /\ has_next
    /\ Failed("next")
    /\ UNCHANGED <<config, args_users, users, repos, unknown_items,
                   markdown_definitions, definitions_again,
                   definitions_permuted, content, file>>

\* get_user_items returns items
ReturnItems ==
    /\ pc = "get_user_items" /\ ~has_next /\ all_users_fetched
    /\ pc' = IF config.ok THEN "filter" ELSE "sort"
    /\ UNCHANGED <<config, args_users, users, ui, has_next, log, items, repos,
                   unknown_items, markdown_definitions, definitions_again,
                   definitions_permuted, content, file>>

\* config branch: the exclusion filter, then the sort by repository_name
FilterAndSort ==
    /\ pc = "filter"
    /\ items' = sort_items(exclude_filter(items, config.exclude))
    /\ pc' = "extract"
    /\ UNCHANGED <<config, args_users, users, ui, has_next, log, repos,
                   unknown_items, markdown_definitions, definitions_again,
                   definitions_permuted, content, file>>

\* flat branch: the sort by repository_name
SortFlat ==
    /\ pc = "sort"
    /\ items' = sort_items(items)
    /\ pc' = "extract"
    /\ UNCHANGED <<config, args_users, users, ui, has_next, log, repos,
                   unknown_items, markdown_definitions, definitions_again,
                   definitions_permuted, content, file>>

\* let markdown_definitions = extract_definitions(&items), then File::create
ExtractAndCreate ==
    /\ pc = "extract"
    /\ markdown_definitions' \in extract_definitions(items)
    /\ file' = [created |-> TRUE, bytes |-> <<>>]
    /\ pc' = IF config.ok THEN "match" ELSE "render_flat"
    /\ UNCHANGED <<config, args_users, users, ui, has_next, log, items, repos,
                   unknown_items, definitions_again, definitions_permuted,
                   content>>

Match ==
    /\ pc = "match"
    /\ LET m == match_items_with_labels(repos, items)
       IN  /\ repos' = m.repos
           /\ unknown_items' = m.unknown_items
    /\ pc' = "render"
    /\ UNCHANGED <<config, args_users, users, ui, has_next, log, items,
                   markdown_definitions, definitions_again,
                   definitions_permuted, content, file>>

\* the for loop over labels.iter().filter(|i| i.items.len() > 0).enumerate()
RECURSIVE render_labels(_, _)
render_labels(rendered, i) ==
    IF i > Len(rendered) THEN <<>>
    ELSE (IF i > 1 THEN << <<>> >> ELSE <<>>)
         \o <<format_label(rendered[i]), <<>>>>
         \o format_items(rendered[i].items)
         \o render_labels(rendered, i + 1)

\* "## Unknown"
UnknownHeading == <<35, 35, 32, 85, 110, 107, 110, 111, 119, 110>>

render_unknown(unknown) ==
    IF Len(unknown) > 0
    THEN << <<>>, UnknownHeading, <<>> >> \o format_items(unknown)
    ELSE <<>>

Render ==
    /\ pc = "render"
    /\ content' =
           render_labels(SelectSeq(repos, LAMBDA l : Len(l.items) > 0), 1)
               \o render_unknown(unknown_items)
    /\ pc' = "write"
    /\ UNCHANGED <<config, args_users, users, ui, has_next, log, items, repos,
                   unknown_items, markdown_definitions, definitions_again,
                   definitions_permuted, file>>

RenderFlat ==
    /\ pc = "render_flat"
    /\ content' = format_items(items)
    /\ pc' = "write_flat"
    /\ UNCHANGED <<config, args_users, users, ui, has_next, log, items, repos,
                   unknown_items, markdown_definitions, definitions_again,
                   definitions_permuted, file>>

\* the four writes of the config branch
Write ==
    /\ pc = "write"
    /\ file' = [file EXCEPT !.bytes =
                   @ \o Join(config.header, NL) \o Join(content, NL)
                     \o BREAK_LINE \o Join(markdown_definitions, NL)]
    /\ pc' = "done"
    /\ UNCHANGED <<config, args_users, users, ui, has_next, log, items, repos,
                   unknown_items, markdown_definitions, definitions_again,
                   definitions_permuted, content>>

\* the three writes of the flat branch
WriteFlat ==
    /\ pc = "write_flat"
    /\ file' = [file EXCEPT !.bytes =
                   @ \o Join(content, NL) \o BREAK_LINE
                     \o Join(markdown_definitions, NL)]
    /\ pc' = "done"
    /\ UNCHANGED <<config, args_users, users, ui, has_next, log, items, repos,
                   unknown_items, markdown_definitions, definitions_again,
                   definitions_permuted, content>>

Next ==
    \/ MainOk \/ MainErr
    \/ GetPrsOk \/ GetPrsErr \/ GetPageOk \/ GetPageErr \/ ReturnItems
    \/ FilterAndSort \/ SortFlat \/ ExtractAndCreate
    \/ Match \/ Render \/ RenderFlat \/ Write \/ WriteFlat

Spec == Init /\ [][Next]_vars

----------------------------------------------------------------------------
(* get_user_items as main calls it, up to its return *)

\* the configurations that differ in what get_user_items is given
InitFetch ==
    /\ Init
    /\ config.ok => config.labels = <<>> /\ config.header = <<>> /\ config.exclude = <<>>

NextFetch ==
    \/ MainOk \/ MainErr
    \/ GetPrsOk \/ GetPrsErr \/ GetPageOk \/ GetPageErr \/ ReturnItems

\* every awaited request is answered, and the runtime then resumes main
SpecFetch == InitFetch /\ [][NextFetch]_vars /\ WF_vars(NextFetch)

----------------------------------------------------------------------------
(* Claims about match_items_with_labels (SpecMatch) *)

RECURSIVE GroupedItems(_)
GroupedItems(labels) ==
    IF labels = <<>> THEN <<>>
    ELSE labels[1].items \o GroupedItems(Tail(labels))

\* everything the matcher placed: the groups' item lists, then the unknown list
PlacedItems == GroupedItems(repos) \o unknown_items

\* C1: match_items_with_labels partitions its input: counted with
\* multiplicity, the groups' item lists together with the unknown list hold
\* exactly the input items; nothing is lost, duplicated or invented.
C1_Partition ==
    pc = "match_returned" =>
        /\ Len(PlacedItems) = Len(items)
        /\ \A x \in Range(items) \cup Range(PlacedItems) :
               Count(PlacedItems, x) = Count(items, x)

\* two groups and the unknown list are populated
C1_Witness ==
    /\ pc = "match_returned"
    /\ Len(repos) = 2
    /\ repos[1].items # <<>>
    /\ repos[2].items # <<>>
    /\ unknown_items # <<>>

\* C2: first match, stable: a group's item list is the input restricted to
\* the items whose repository name the group lists and no earlier group
\* lists, in input order; the unknown list is the input restricted to the
\* items no group lists, in input order.
C2_FirstMatchStable ==
    pc = "match_returned" =>
        /\ \A g \in DOMAIN repos :
               repos[g].items =
                   SelectSeq(items, LAMBDA it :
                       /\ Contains(repos[g].repos, it.repository_name)
                       /\ \A h \in 1..(g - 1) :
                              ~Contains(repos[h].repos, it.repository_name))
        /\ unknown_items =
               SelectSeq(items, LAMBDA it :
                   \A g \in DOMAIN repos :
                       ~Contains(repos[g].repos, it.repository_name))

\* an item listed by both groups went to the first, which holds two
\* different items
C2_Witness ==
    /\ pc = "match_returned"
    /\ Len(repos) = 2
    /\ \E i \in DOMAIN items :
           /\ Contains(repos[1].repos, items[i].repository_name)
           /\ Contains(repos[2].repos, items[i].repository_name)
    /\ Len(repos[1].items) >= 2
    /\ repos[1].items[1] # repos[1].items[2]

----------------------------------------------------------------------------
(* Claims about extract_definitions (SpecDefs) *)

UserLines == {user_definition(items[i]) : i \in DOMAIN items}
RepositoryLines == {repository_definition(items[i]) : i \in DOMAIN items}
Logins == {items[i].user_login : i \in DOMAIN items}
RepositoryNames == {items[i].repository_name : i \in DOMAIN items}

Extracted == pc \in {"call_again", "call_permuted", "extract_returned"}

\* C4 as stated: one line per distinct login and one per distinct repository
\* name, also when a login or a name occurs with two URLs.
C4_OneLinePerKey ==
    Extracted =>
        /\ Len(markdown_definitions) =
               Cardinality(Logins) + Cardinality(RepositoryNames)
        /\ \A l \in Logins :
               Cardinality({i \in DOMAIN markdown_definitions :
                   StartsWith(markdown_definitions[i],
                              <<91, 64>> \o l \o <<93, 58, 32>>)}) = 1
        /\ \A r \in RepositoryNames :
               Cardinality({i \in DOMAIN markdown_definitions :
                   StartsWith(markdown_definitions[i],
                              <<91>> \o r \o <<93, 58, 32>>)}) = 1

\* C4, amended: extract_definitions deduplicates by formatted line: every
\* distinct user line and every distinct repository line of the items occurs
\* exactly once in the output, and the output holds nothing else.
C4_OneLinePerDistinctLine ==
    Extracted =>
        /\ Len(markdown_definitions) =
               Cardinality(UserLines) + Cardinality(RepositoryLines)
        /\ \A l \in UserLines \cup RepositoryLines :
               Count(markdown_definitions, l) = 1
        /\ Range(markdown_definitions) = UserLines \cup RepositoryLines

\* a login occurs with two profile URLs and a third item repeats a line
C4_Witness ==
    /\ Extracted
    /\ Len(items) = 3
    /\ Cardinality(UserLines) > Cardinality(Logins)
    /\ Cardinality(UserLines) < 3

\* ascending in the order of String
Ascending(strs) ==
    \A i \in 1..(Len(strs) - 1) : StrLeq(strs[i], strs[i + 1])

\* C5: the result is the user lines in ascending order of the whole line,
\* then the repository lines in ascending order of the whole line; a second
\* call on the same items and a call on the items in another order return
\* the same sequence.
C5_OrderStable ==
    /\ Extracted =>
           LET nu == Cardinality(UserLines)
               n  == Len(markdown_definitions)
           IN  /\ Range(SubSeq(markdown_definitions, 1, nu)) = UserLines
               /\ Range(SubSeq(markdown_definitions, nu + 1, n)) = RepositoryLines
               /\ Ascending(SubSeq(markdown_definitions, 1, nu))
               /\ Ascending(SubSeq(markdown_definitions, nu + 1, n))
    /\ pc \in {"call_permuted", "extract_returned"} =>
           definitions_again = markdown_definitions
    /\ pc = "extract_returned" => definitions_permuted = markdown_definitions

\* three calls returned, on items that are not in ascending order of their
\* lines, with two user lines and two repository lines
C5_Witness ==
    /\ pc = "extract_returned"
    /\ Cardinality(UserLines) >= 2
    /\ Cardinality(RepositoryLines) >= 2
    /\ ~Ascending([i \in DOMAIN items |-> user_definition(items[i])])
    /\ ~Ascending([i \in DOMAIN items |-> repository_definition(items[i])])

----------------------------------------------------------------------------
(* Claims about a run of main (Spec, SpecFetch) *)

\* the items of the answers received, in the order of the requests
RECURSIVE AnsweredItems(_)
AnsweredItems(requests) ==
    IF requests = <<>> THEN <<>>
    ELSE [i \in DOMAIN requests[1].issues |-> to_item(requests[1].issues[i])]
         \o AnsweredItems(Tail(requests))

Fetched == AnsweredItems(log)

Excluded(item) == config.ok /\ Contains(config.exclude, item.repository_name)

\* the pagination of the user at index k has been received to its end
PaginationComplete(k) ==
    /\ AnswersFor(k) # <<>>
    /\ ~AnswersFor(k)[Len(AnswersFor(k))].next

FetchOrder ==
    /\ \A i \in DOMAIN log :
           /\ log[i].ui \in DOMAIN users
           /\ log[i].user = users[log[i].ui]
           /\ IF i = 1
              THEN log[i].ui = 1 /\ log[i].kind = "search"
              ELSE /\ log[i - 1].ok
                   /\ IF log[i - 1].next
                      THEN log[i].ui = log[i - 1].ui /\ log[i].kind = "next"
                      ELSE log[i].ui = log[i - 1].ui + 1 /\ log[i].kind = "search"
    /\ pc # "main" /\ pc # "aborted" /\ pc # "get_user_items" =>
           \A k \in DOMAIN users : PaginationComplete(k)
    /\ pc \in {"get_user_items", "aborted", "filter", "sort"} => items = Fetched

FetchLeft == pc # "main" /\ pc # "get_user_items"

\* C7: the users are fetched in the order supplied, each by a search request
\* and then next-page requests until the answer has no next page; no request
\* for the following user is issued before that; the item list is the
\* answered records' items in request and in-page order; the loop ends.
C7_FetchOrder == []FetchOrder /\ <>FetchLeft

\* two users fetched to the end, the first over two pages, with three items
C7_Witness ==
    /\ pc = "filter"
    /\ Len(users) = 2
    /\ Len(AnswersFor(1)) = 2
    /\ Len(items) = 3

\* C8: a failed request aborts the run at that request: it is the last
\* request, nothing is retried, and no file exists; the file is created only
\* when every user's pagination has been received to its end.
C8_FetchFailureFatal ==
    /\ \A i \in DOMAIN log : ~log[i].ok => i = Len(log) /\ pc = "aborted"
    /\ pc = "aborted" =>
           /\ log # <<>> /\ ~log[Len(log)].ok
           /\ file = NoFile
    /\ file.created =>
           /\ \A i \in DOMAIN log : log[i].ok
           /\ \A k \in DOMAIN users : PaginationComplete(k)
    /\ file.bytes # <<>> => file.created /\ pc = "done"

\* a next-page request of the second user failed after three answers
C8_Witness ==
    /\ pc = "aborted"
    /\ Len(log) = 4
    /\ log[4].kind = "next"
    /\ log[4].ui = 2
    /\ items # <<>>

Lines == Split(file.bytes, 10)

IsHeading(line) == StartsWith(line, <<35, 35, 32>>)
IsBullet(line) == StartsWith(line, <<45, 32>>)

\* the headings of content, without the "## Unknown" that ends them
LabelHeadings ==
    LET hs == SelectSeq(content, IsHeading)
    IN  IF unknown_items # <<>> THEN SubSeq(hs, 1, Len(hs) - 1) ELSE hs

\* the configured label (names are distinct) got at least one item
HasItems(label) ==
    \E g \in DOMAIN repos :
        /\ repos[g].name = label.name
        /\ repos[g].repos = label.repos
        /\ repos[g].items # <<>>

Rendered == config.ok /\ pc \in {"write", "done"}

\* every heading is followed by an empty line and then by a bullet
SectionsFilled ==
    \A i \in DOMAIN content :
        IsHeading(content[i]) =>
            /\ i + 2 <= Len(content)
            /\ content[i + 1] = <<>>
            /\ IsBullet(content[i + 2])

\* C3 as stated: the sections are in the order the configuration lists the
\* label groups, and a group without items has no heading.
C3_ConfiguredOrder ==
    Rendered =>
        /\ LabelHeadings =
               LET shown == SelectSeq(config.labels, HasItems)
               IN  [i \in DOMAIN shown |-> format_label(shown[i])]
        /\ SectionsFilled

\* C3, amended: the sections are in ascending order of the label groups'
\* names, whatever the order of the configuration; exactly the groups with
\* at least one matched item have a heading, and every heading is followed
\* by an empty line and that group's bullets.
C3_NameOrder ==
    Rendered =>
        /\ Ascending(LabelHeadings)
        /\ Len(LabelHeadings) =
               Cardinality({i \in DOMAIN config.labels : HasItems(config.labels[i])})
        /\ Range(LabelHeadings) =
               {format_label(config.labels[i]) :
                   i \in {j \in DOMAIN config.labels : HasItems(config.labels[j])}}
        /\ SectionsFilled
        /\ Cardinality({i \in DOMAIN content : IsBullet(content[i])}) = Len(items)

\* two groups configured in descending order of name, both with items
C3_Witness ==
    /\ Rendered /\ pc = "done"
    /\ Len(config.labels) = 2
    /\ StrLess(config.labels[2].name, config.labels[1].name)
    /\ Len(LabelHeadings) = 2

\* C6: with a readable config, items of an excluded repository are in no
\* group's list, not in the unknown list, in no bullet and behind no
\* reference definition; every other fetched item is kept.
C6_Exclusion ==
    config.ok =>
        LET fetched == Fetched
            placed  == PlacedItems
            lines   == Lines
            kept(x) == IF Excluded(x) THEN 0 ELSE Count(fetched, x)
        IN  /\ pc \in {"extract", "match", "render", "write", "done"} =>
                   \A x \in Range(fetched) \cup Range(items) :
                       Count(items, x) = kept(x)
            /\ pc \in {"match", "render", "write", "done"} =>
                   Range(markdown_definitions) =
                       UNION {{user_definition(x), repository_definition(x)} :
                                  x \in {y \in Range(fetched) : ~Excluded(y)}}
            /\ pc \in {"render", "write", "done"} =>
                   \A x \in Range(fetched) \cup Range(placed) :
                       Count(placed, x) = kept(x)
            /\ pc = "done" =>
                   /\ \A x \in Range(fetched) :
                          Count(lines, format_item(x.user_login, x)) = kept(x)
                   /\ \A e \in Range(config.exclude), i \in DOMAIN lines :
                          /\ ~StartsWith(lines[i], <<45, 32, 91>> \o e \o <<93>>)
                          /\ ~StartsWith(lines[i], <<91>> \o e \o <<93, 58>>)

\* the document is written; an item was excluded, two were kept
C6_Witness ==
    /\ config.ok /\ pc = "done"
    /\ \E x \in Range(Fetched) : Excluded(x)
    /\ Len(items) = 2

\* C9: without a readable config the run fetches for the users of the
\* command line and writes one bullet per fetched item, in ascending order of
\* repository_name and in fetch order within a repository, then the break
\* and the reference definitions of all fetched items; no heading, no
\* header, nothing excluded.
C9_FlatMode ==
    ~config.ok /\ pc = "done" =>
        LET fetched == Fetched
            lines   == Lines
        IN  /\ users = args_users
            /\ \A x \in Range(fetched) \cup Range(items) :
                   Count(items, x) = Count(fetched, x)
            /\ \A i \in 1..(Len(items) - 1) :
                   StrLeq(items[i].repository_name, items[i + 1].repository_name)
            /\ \A x \in Range(fetched) :
                   SelectSeq(items, LAMBDA y : y.repository_name = x.repository_name) =
                   SelectSeq(fetched, LAMBDA y : y.repository_name = x.repository_name)
            /\ file.bytes =
                   Join(format_items(items), NL) \o BREAK_LINE
                       \o Join(markdown_definitions, NL)
            /\ items # <<>> =>
                   lines = format_items(items) \o << <<>> >> \o markdown_definitions
            /\ Range(markdown_definitions) =
                   UNION {{user_definition(x), repository_definition(x)} :
                              x \in Range(fetched)}
            /\ \A i \in DOMAIN lines : ~IsHeading(lines[i])

\* flat mode wrote three items that were not fetched in order of repository
C9_Witness ==
    /\ ~config.ok /\ pc = "done"
    /\ Len(Fetched) = 3
    /\ Fetched # items
    /\ Fetched[1].repository_name = Fetched[3].repository_name

\* C10 as stated: in the written document every heading of the content is a
\* line of its own, followed by an empty line and the group's bullets, and
\* every heading but the first is preceded by an empty line.
C10_HeadingLines ==
    config.ok /\ pc = "done" =>
        LET lines == Lines
        IN  /\ SelectSeq(lines, IsHeading) = SelectSeq(content, IsHeading)
            /\ \A i \in DOMAIN lines :
                   IsHeading(lines[i]) =>
                       /\ i + 2 <= Len(lines)
                       /\ lines[i + 1] = <<>>
                       /\ IsBullet(lines[i + 2])
                       /\ (\E j \in 1..(i - 1) : IsHeading(lines[j])) =>
                              lines[i - 1] = <<>>

\* the same statement for the configurations without header lines
C10_HeadingLinesWithoutHeader ==
    config.ok /\ config.header = <<>> => C10_HeadingLines

====
